---- MODULE Spec2Model ----
(***************************************************************************)
(* proc_qq: the module/handler event router (client_handler.rs) and the    *)
(* conversation layer that lets a handler answer the source of a message   *)
(* (traits/message_trait.rs).                                              *)
(*                                                                         *)
(* Spec      the router: ClientHandler::handle and the map_handlers! walk  *)
(* ViewSpec  the conversation layer: MessageSendToSourceTrait              *)
(***************************************************************************)
EXTENDS Integers, Sequences, FiniteSets, TLC

\* ------------------------------------------------------------------ bounds

\* at most this many modules in a registry
MaxModules == 2
\* at most this many handlers in a registry, all modules together
MaxHandlers == 3

\* at most this many handlers in a registry that two tasks walk at a time
MaxConcHandlers == 2

\* ------------------------------------------------------- event catalogue

\* QEvent variants that carry a message (client_handler.rs 62, 79, 95)
MessageKinds == {"GroupMessage", "PrivateMessage", "TempMessage"}

\* the other QEvent variants ClientHandler::handle names (111-152)
NoticeKinds ==
    {"GroupRequest", "FriendRequest", "NewFriend", "FriendPoke", "DeleteFriend",
     "GroupMute", "GroupLeave", "GroupNameUpdate", "GroupMessageRecall",
     "FriendMessageRecall"}

\* every QEvent variant; "Other" is any variant handle() catches with `_`
QEventKinds == MessageKinds \cup NoticeKinds \cup {"Other"}

\* enum ModuleEventProcess: one variant per event kind, and Message
ModuleEventProcess == MessageKinds \cup NoticeKinds \cup {"Message"}

\* the variants the events of the model are drawn from: the three messages, two
\* notices whose arm logs, one whose arm does not, and one handle() does not name
EventKinds ==
    {"GroupMessage", "PrivateMessage", "TempMessage", "GroupRequest",
     "FriendRequest", "NewFriend", "Other"}

\* the capabilities the registries of the model draw their handlers from
Capabilities == {"GroupMessage", "Message", "GroupRequest"}

\* what a process trait's handle() returns: anyhow::Result<bool>
Ok(b) == <<"Ok", b>>
Err(e) == <<"Err", e>>
HandlerReturns == {Ok(TRUE), Ok(FALSE), Err("boom")}

\* a call that is awaited and has not returned
Pending == <<"Pending">>

\* enum MapResult
None == <<"None">>
Process(id, name) == <<"Process", id, name>>
Exception(id, name) == <<"Exception", id, name>>

\* --------------------------------------------------------------- registry

\* struct ModuleEventHandler
ModuleEventHandler(name, process) == [name |-> name, process |-> process]

\* struct Module, as the module! macro builds it
Module(id, name, handles) == [id |-> id, name |-> name, handles |-> handles]

\* the sequences of at most n capabilities: the handlers of one module
CapabilityLists(n) == UNION {[1..k -> Capabilities] : k \in 0..n}

RECURSIVE Shapes(_, _)
\* the sequences of m capability lists that hold at most n handlers together
Shapes(m, n) ==
    IF m = 0 THEN {<<>>}
    ELSE UNION {{<<cs>> \o r : r \in Shapes(m - 1, n - Len(cs))} :
                  cs \in CapabilityLists(n)}

RECURSIVE HandlersBefore(_, _)
\* the number of handlers in the first i - 1 capability lists of s
HandlersBefore(s, i) ==
    IF i <= 1 THEN 0 ELSE HandlersBefore(s, i - 1) + Len(s[i - 1])

\* Vec<Module>: the registries within the bounds. Module i has the id m<i>, and
\* the k-th handler of the registry the name h<k>
Registries ==
    UNION {{[i \in 1..m |->
               Module("m" \o ToString(i), "M" \o ToString(i),
                      [j \in 1..Len(s[i]) |->
                         ModuleEventHandler(
                             "h" \o ToString(HandlersBefore(s, i) + j),
                             s[i][j])])] :
              s \in Shapes(m, MaxHandlers)} : m \in 0..MaxModules}

\* ----------------------------------------------------------------- state

\* the tasks the client's event delivery may run ClientHandler::handle on
Tasks == {"t1", "t2"}

VARIABLES
    modules,      \* ClientHandler.modules
    tasks,        \* the tasks that deliver events in this run
    pc,           \* per task: "idle", "walk", "handler", "ret", "done"
    event,        \* per task: the QEvent its handle() call was given
    mi,           \* per task: place of `m` in `for m in &self.modules`
    hi,           \* per task: place of `h` in `for h in &m.handles`
    result,       \* per task: `let mut result` of map_handlers!
    invoked,      \* per task: the process handle() calls of this dispatch
    log,          \* per task: the tracing records of this dispatch
    returned,     \* per task: what its handle() call returned
    failedBefore, \* an earlier dispatch of this router ended in Exception
    view,         \* the message event a handler holds (ViewSpec)
    op,           \* the operation the handler last invoked on it
    calls,        \* the calls that operation made on the client
    opret,        \* what that operation returned
    answers       \* what the client answered those calls, call by call

routerVars ==
    <<modules, tasks, pc, event, mi, hi, result, invoked, log, returned,
      failedBefore>>
viewVars == <<view, op, calls, opret, answers>>
vars == <<routerVars, viewVars>>

NoEvent == [kind |-> "none"]
NoView == [type |-> "none"]
NoOp == <<"none">>

\* a QEvent; the router reads nothing of it but its variant
QEvent(kind) == [kind |-> kind]

\* ----------------------------------------------------------- the router

\* Arms, had handle() passed `me` and Message for every variant it names
ArmsMessageEverywhere(kind) ==
    IF kind \in MessageKinds \cup NoticeKinds
    THEN <<[with |-> "event", process |-> kind],
           [with |-> "me", process |-> "Message"]>>
    ELSE <<>>

\* Arms, had the `_` arm of handle() offered the event to the Message handlers
ArmsFallbackWalks(kind) ==
    IF kind \in MessageKinds
    THEN <<[with |-> "event", process |-> kind],
           [with |-> "me", process |-> "Message"]>>
    ELSE IF kind \in NoticeKinds
    THEN <<[with |-> "event", process |-> kind]>>
    ELSE <<[with |-> "me", process |-> "Message"]>>

\* the (event, process) pairs handle() passes to map_handlers! for a variant:
\* the event with its own process and, for a message, `me` with Message
Arms(kind) ==
    IF kind \in MessageKinds
    THEN <<[with |-> "event", process |-> kind],
           [with |-> "me", process |-> "Message"]>>
    ELSE IF kind \in NoticeKinds
    THEN <<[with |-> "event", process |-> kind]>>
    ELSE <<>>

\* MatchArm, had the macro expanded its first ($event, $process) pair only
MatchArmFirstOnly(process, arms) ==
    IF arms # <<>> /\ arms[1].process = process THEN 1 ELSE 0

\* `match &h.process`: the first arm of the match that names the handler's
\* variant, 0 for the `_ => ()` arm
MatchArm(process, arms) ==
    IF \E i \in 1..Len(arms) : arms[i].process = process
    THEN CHOOSE i \in 1..Len(arms) :
            /\ arms[i].process = process
            /\ \A j \in 1..(i - 1) : arms[j].process # process
    ELSE 0

\* StepResult, with the Process and Exception arms exchanged
StepResultSwapped(res, m, h, r) ==
    IF r[1] = "Ok"
    THEN IF r[2] THEN Exception(m.id, h.name) ELSE res
    ELSE Process(m.id, h.name)

\* StepResult, had the Err arm only logged
StepResultDropErr(res, m, h, r) ==
    IF r[1] = "Ok"
    THEN IF r[2] THEN Process(m.id, h.name) ELSE res
    ELSE res

\* the arms of `match e.handle(&$event).await`
StepResult(res, m, h, r) ==
    IF r[1] = "Ok"
    THEN IF r[2] THEN Process(m.id, h.name) ELSE res
    ELSE Exception(m.id, h.name)

\* BreakLoop, had the walk no break
BreakLoopNever(res) == FALSE

\* `if let MapResult::None = result {} else { break; }`, after the match and
\* again after the inner loop
BreakLoop(res) == res # None

\* a tracing record: its level and the values it formats, each a pair of what
\* the value is and the value
LogRecord(level, args) == [level |-> level, args |-> args]

\* tracing::error! of the Err arm
ErrorLog(r) ==
    IF r[1] = "Err" THEN <<LogRecord("ERROR", <<<<"err", r[2]>>>>)>> ELSE <<>>

\* the variants whose arm of handle() starts with tracing::debug!
DebugKinds == MessageKinds \cup {"GroupRequest", "FriendRequest", "Other"}

\* tracing::debug! at the head of an arm of handle()
EntryLog(e) ==
    IF e.kind \in DebugKinds THEN <<LogRecord("DEBUG", <<<<"event", e>>>>)>> ELSE <<>>

\* HandleReturn, had handle() handed a handler's failure on to its caller
HandleReturnPropagate(res) ==
    IF res[1] = "Exception" THEN "error" ELSE "unit"

\* handle() has no return value: `let _ =` drops the MapResult
HandleReturn(res) == "unit"

\* what `for m in &$self.modules` yields in its i-th round
IterModules(ms, i) == ms[i]

\* IterHandles, had the loop run over the handlers from the last to the first
IterHandlesReversed(m, i) == m.handles[Len(m.handles) + 1 - i]

\* what `for h in &m.handles` yields in its i-th round
IterHandles(m, i) == m.handles[i]

CurModule(t) == IterModules(modules, mi[t])
CurHandler(t) == IterHandles(CurModule(t), hi[t])
AtHandler(t) ==
    /\ pc[t] = "walk"
    /\ mi[t] <= Len(modules)
    /\ hi[t] <= Len(CurModule(t).handles)

\* the client hands an event to handle(): the match on the variant, the debug
\* record, and `let mut result = MapResult::None`
Deliver(t, e) ==
    /\ t \in tasks
    /\ pc[t] \in {"idle", "done"}
    /\ event' = [event EXCEPT ![t] = e]
    /\ log' = [log EXCEPT ![t] = EntryLog(e)]
    /\ result' = [result EXCEPT ![t] = None]
    /\ invoked' = [invoked EXCEPT ![t] = <<>>]
    /\ returned' = [returned EXCEPT ![t] = "pending"]
    /\ mi' = [mi EXCEPT ![t] = 1]
    /\ hi' = [hi EXCEPT ![t] = 1]
    /\ pc' = [pc EXCEPT ![t] = IF Arms(e.kind) = <<>> THEN "ret" ELSE "walk"]
    /\ UNCHANGED <<modules, tasks, failedBefore, viewVars>>

\* AfterMatch, had a failed handler been tried again
AfterMatchRetry(t, res) ==
    IF res[1] = "Exception"
    THEN /\ pc' = [pc EXCEPT ![t] = "walk"]
         /\ UNCHANGED <<mi, hi>>
    ELSE IF res # None
    THEN /\ pc' = [pc EXCEPT ![t] = "ret"]
         /\ UNCHANGED <<mi, hi>>
    ELSE /\ pc' = [pc EXCEPT ![t] = "walk"]
         /\ hi' = [hi EXCEPT ![t] = @ + 1]
         /\ UNCHANGED mi

\* the two breaks after the match, or the next handler
AfterMatch(t, res) ==
    IF BreakLoop(res)
    THEN /\ pc' = [pc EXCEPT ![t] = "ret"]
         /\ UNCHANGED <<mi, hi>>
    ELSE /\ pc' = [pc EXCEPT ![t] = "walk"]
         /\ hi' = [hi EXCEPT ![t] = @ + 1]
         /\ UNCHANGED mi

\* the handler's variant is none of the arms: `_ => ()`
Skip(t) ==
    /\ AtHandler(t)
    /\ MatchArm(CurHandler(t).process, Arms(event[t].kind)) = 0
    /\ AfterMatch(t, result[t])
    /\ UNCHANGED <<modules, tasks, event, result, invoked, log, returned,
                   failedBefore, viewVars>>

\* Invoke, had the router held a lock of its own across the handler's await
InvokeUnderLock(t) ==
    /\ AtHandler(t)
    /\ \A u \in Tasks \ {t} : pc[u] # "handler"
    /\ LET a == MatchArm(CurHandler(t).process, Arms(event[t].kind))
       IN  /\ a # 0
           /\ invoked' = [invoked EXCEPT ![t] =
                Append(@, [module |-> CurModule(t).id,
                           handler |-> CurHandler(t).name,
                           process |-> CurHandler(t).process,
                           with |-> Arms(event[t].kind)[a].with,
                           ret |-> Pending])]
    /\ pc' = [pc EXCEPT ![t] = "handler"]
    /\ UNCHANGED <<modules, tasks, event, mi, hi, result, log, returned,
                   failedBefore, viewVars>>

\* the handler's variant is an arm: e.handle(&$event) is called and awaited
Invoke(t) ==
    /\ AtHandler(t)
    /\ LET a == MatchArm(CurHandler(t).process, Arms(event[t].kind))
       IN  /\ a # 0
           /\ invoked' = [invoked EXCEPT ![t] =
                Append(@, [module |-> CurModule(t).id,
                           handler |-> CurHandler(t).name,
                           process |-> CurHandler(t).process,
                           with |-> Arms(event[t].kind)[a].with,
                           ret |-> Pending])]
    /\ pc' = [pc EXCEPT ![t] = "handler"]
    /\ UNCHANGED <<modules, tasks, event, mi, hi, result, log, returned,
                   failedBefore, viewVars>>

\* Return, had `result` been one value of the router, shared by its calls
ReturnSharedResult(t, r) ==
    /\ pc[t] = "handler"
    /\ LET res == StepResult(result[t], CurModule(t), CurHandler(t), r)
       IN  /\ result' = [u \in Tasks |-> res]
           /\ AfterMatch(t, res)
    /\ log' = [log EXCEPT ![t] = @ \o ErrorLog(r)]
    /\ invoked' = [invoked EXCEPT ![t][Len(invoked[t])].ret = r]
    /\ UNCHANGED <<modules, tasks, event, returned, failedBefore, viewVars>>

\* the awaited handler returns r
Return(t, r) ==
    /\ pc[t] = "handler"
    /\ LET res == StepResult(result[t], CurModule(t), CurHandler(t), r)
       IN  /\ result' = [result EXCEPT ![t] = res]
           /\ AfterMatch(t, res)
    /\ log' = [log EXCEPT ![t] = @ \o ErrorLog(r)]
    /\ invoked' = [invoked EXCEPT ![t][Len(invoked[t])].ret = r]
    /\ UNCHANGED <<modules, tasks, event, returned, failedBefore, viewVars>>

\* EndModule, had the walk begun the module again when its handlers ran out
EndModuleAgain(t) ==
    /\ pc[t] = "walk"
    /\ mi[t] <= Len(modules)
    /\ hi[t] > Len(CurModule(t).handles)
    /\ IF BreakLoop(result[t])
       THEN /\ pc' = [pc EXCEPT ![t] = "ret"]
            /\ UNCHANGED <<mi, hi>>
       ELSE /\ hi' = [hi EXCEPT ![t] = 1]
            /\ UNCHANGED <<pc, mi>>
    /\ UNCHANGED <<modules, tasks, event, result, invoked, log, returned,
                   failedBefore, viewVars>>

\* the inner loop runs out of handlers: the break after it, or the next module
EndModule(t) ==
    /\ pc[t] = "walk"
    /\ mi[t] <= Len(modules)
    /\ hi[t] > Len(CurModule(t).handles)
    /\ IF BreakLoop(result[t])
       THEN /\ pc' = [pc EXCEPT ![t] = "ret"]
            /\ UNCHANGED <<mi, hi>>
       ELSE /\ mi' = [mi EXCEPT ![t] = @ + 1]
            /\ hi' = [hi EXCEPT ![t] = 1]
            /\ UNCHANGED pc
    /\ UNCHANGED <<modules, tasks, event, result, invoked, log, returned,
                   failedBefore, viewVars>>

\* the walk is over: by a break, by the end of the outer loop, or because the
\* variant has no walk
WalkOver(t) ==
    IF pc[t] = "walk" THEN mi[t] > Len(modules) ELSE pc[t] = "ret"

\* Finish, had the walk taken the modules out of the router
FinishTakingModules(t) ==
    /\ WalkOver(t)
    /\ returned' = [returned EXCEPT ![t] = HandleReturn(result[t])]
    /\ pc' = [pc EXCEPT ![t] = "done"]
    /\ failedBefore' = (failedBefore \/ result[t][1] = "Exception")
    /\ modules' = <<>>
    /\ UNCHANGED <<tasks, event, mi, hi, result, invoked, log, viewVars>>

\* map_handlers! yields `result`, handle() drops it and returns
Finish(t) ==
    /\ WalkOver(t)
    /\ returned' = [returned EXCEPT ![t] = HandleReturn(result[t])]
    /\ pc' = [pc EXCEPT ![t] = "done"]
    /\ failedBefore' = (failedBefore \/ result[t][1] = "Exception")
    /\ UNCHANGED <<modules, tasks, event, mi, hi, result, invoked, log,
                   viewVars>>

RouterInit ==
    /\ modules \in Registries
    /\ pc = [t \in Tasks |-> "idle"]
    /\ event = [t \in Tasks |-> NoEvent]
    /\ mi = [t \in Tasks |-> 1]
    /\ hi = [t \in Tasks |-> 1]
    /\ result = [t \in Tasks |-> None]
    /\ invoked = [t \in Tasks |-> <<>>]
    /\ log = [t \in Tasks |-> <<>>]
    /\ returned = [t \in Tasks |-> "pending"]
    /\ failedBefore = FALSE

ViewIdle ==
    /\ view = NoView
    /\ op = NoOp
    /\ calls = <<>>
    /\ opret = Pending
    /\ answers = <<>>

Init ==
    /\ RouterInit
    /\ tasks = {"t1"}
    /\ ViewIdle

Next ==
    \/ \E t \in Tasks, k \in EventKinds : Deliver(t, QEvent(k))
    \/ \E t \in Tasks : Skip(t)
    \/ \E t \in Tasks : Invoke(t)
    \/ \E t \in Tasks, r \in HandlerReturns : Return(t, r)
    \/ \E t \in Tasks : EndModule(t)
    \/ \E t \in Tasks : Finish(t)

Spec == Init /\ [][Next]_vars

\* ------------------------------------------------- concurrent dispatches

\* the task that awaits a handler is dropped: the future of handle() is
\* cancelled at its await, and nothing of the call runs any more
Cancel(t) ==
    /\ pc[t] = "handler"
    /\ pc' = [pc EXCEPT ![t] = "cancelled"]
    /\ UNCHANGED <<modules, tasks, event, mi, hi, result, invoked, log,
                   returned, failedBefore, viewVars>>

RECURSIVE HandlerCount(_, _)
\* the number of handlers in the first i modules of a registry
HandlerCount(ms, i) ==
    IF i = 0 THEN 0 ELSE HandlerCount(ms, i - 1) + Len(ms[i].handles)

\* the registries two tasks walk at a time
ConcRegistries ==
    {ms \in Registries : HandlerCount(ms, Len(ms)) <= MaxConcHandlers}

\* the variants the events of two tasks are drawn from
ConcEventKinds == {"GroupMessage", "Other"}

\* the client delivers events on two tasks
ConcInit ==
    /\ RouterInit
    /\ modules \in ConcRegistries
    /\ tasks = Tasks
    /\ ViewIdle

\* a step of the dispatch a task runs
Step(t) ==
    \/ Skip(t)
    \/ Invoke(t)
    \/ \E r \in HandlerReturns : Return(t, r)
    \/ EndModule(t)
    \/ Finish(t)

ConcNext ==
    \/ \E t \in Tasks, k \in ConcEventKinds : Deliver(t, QEvent(k))
    \/ \E t \in Tasks : Step(t)
    \/ \E t \in Tasks : Cancel(t)

ConcSpec == ConcInit /\ [][ConcNext]_vars

\* the runtime polls a task that can run, and the handlers t2 awaits return;
\* nothing is assumed of t1, whose handler may stay suspended for ever
ConcFairSpec == ConcSpec /\ WF_vars(Step("t2"))

\* one task, polled by the runtime while it can run, whose handlers return
FairSpec == Spec /\ WF_vars(Step("t1"))

\* -------------------------------------------------- the conversation layer
\* traits/message_trait.rs. It names the one-to-one conversation FriendMessage
\* where client_handler.rs names it PrivateMessage.

GroupCodes == {100, 101}
Uins == {200, 201}
Strings == {"", "hi", "yo"}
Datas == {<<7>>, <<8>>}
Codecs == {0, 1}
Durations == {1, 2}

\* Option<i64>
Some(x) == <<"Some", x>>
Nothing == <<"None">>

\* Text::new: a text element
TextNew(content) == [elem |-> "Text", content |-> content]

\* MessageChain::new: the chain of one element
MessageChainNew(e) == <<e>>

\* TextEleParseTrait::parse_text, for String and for &str
parse_text(s) == TextNew(s)

\* parse_message_chain, had it built the chain as the image impls do and left
\* out the push
parse_message_chain_no_push(s) == <<>>

\* MessageChainParseTrait::parse_message_chain, for String and for &str
parse_message_chain(s) == MessageChainNew(parse_text(s))

RECURSIVE to_string(_)
\* MessageChain's to_string: the elements one after the other, a text element
\* as its content
to_string(chain) ==
    IF chain = <<>> THEN ""
    ELSE Head(chain).content \o to_string(Tail(chain))

\* the chains a handler sends and a message holds
Chains == {parse_message_chain(s) : s \in Strings \ {""}}

\* enum MessageTarget
Group(group_code, uin) == <<"Group", group_code, uin>>
Private(uin) == <<"Private", uin>>
Temp(group_code, uin) == <<"Temp", group_code, uin>>

\* the message events of rs_qq, by the fields this layer reads
GroupMessageEvent(group_code, from_uin, elements) ==
    [type |-> "GroupMessageEvent", group_code |-> group_code,
     from_uin |-> from_uin, elements |-> elements]
FriendMessageEvent(from_uin, elements) ==
    [type |-> "FriendMessageEvent", from_uin |-> from_uin,
     elements |-> elements]
TempMessageEvent(group_code, from_uin, elements) ==
    [type |-> "TempMessageEvent", group_code |-> group_code,
     from_uin |-> from_uin, elements |-> elements]

\* enum MessageEvent: the wrapper `me` that handle() builds around a message
MessageEvent(e) == [type |-> "MessageEvent", event |-> e]

ConcreteEvents ==
    {GroupMessageEvent(g, u, c) : g \in GroupCodes, u \in Uins, c \in Chains}
    \cup {FriendMessageEvent(u, c) : u \in Uins, c \in Chains}
    \cup {TempMessageEvent(g, u, c) :
            g \in {Nothing} \cup {Some(x) : x \in GroupCodes}, u \in Uins,
            c \in Chains}

\* what a handler may hold: a message event, or the wrapper of one
Views == ConcreteEvents \cup {MessageEvent(e) : e \in ConcreteEvents}

\* RQError::Other
Other(text) == <<"Other", text>>

\* a call on rs_qq's Client
Call(name, args) == [name |-> name, args |-> args]

\* what the client answers a call: the value of the call, or a failure
Answers == {"ok", "fail"}
Answer(a, value) == IF a = "ok" THEN Ok(value) ELSE Err(<<"Network">>)

\* target, with the two fields of a group target exchanged
target_group_swapped(v) ==
    LET e == IF v.type = "MessageEvent" THEN v.event ELSE v
    IN  IF e.type = "GroupMessageEvent" THEN Group(e.from_uin, e.group_code)
        ELSE IF e.type = "FriendMessageEvent" THEN Private(e.from_uin)
        ELSE Temp(e.group_code, e.from_uin)

RECURSIVE target(_)
\* MessageTargetTrait::target
target(v) ==
    IF v.type = "MessageEvent" THEN target(v.event)
    ELSE IF v.type = "GroupMessageEvent" THEN Group(v.group_code, v.from_uin)
    ELSE IF v.type = "FriendMessageEvent" THEN Private(v.from_uin)
    ELSE Temp(v.group_code, v.from_uin)

\* MessageContentTrait::message_content of a MessageChain
message_content_chain(chain) == to_string(chain)

RECURSIVE message_content(_)
\* MessageContentTrait::message_content of a message event: the content of
\* message.elements
message_content(v) ==
    IF v.type = "MessageEvent" THEN message_content(v.event)
    ELSE IF v.type = "GroupMessageEvent" THEN message_content_chain(v.elements)
    ELSE to_string(v.elements)

\* ClientTrait::bot_uin: the event's client is asked, for the wrapper the
\* client of the wrapped event (MessageEvent::client)
bot_uin(v) == [calls |-> <<Call("bot_uin", <<>>)>>, ret |-> "bot_uin"]

\* ClientTrait::must_find_group
must_find_group(v, group_code, auto_reload, ans) ==
    [calls |-> <<Call("must_find_group", <<group_code, auto_reload>>)>>,
     ret |-> Answer(ans[1], <<"Group", group_code>>)]

\* send_message_to_source, had every reply gone to the sender in private
send_message_to_source_private(v, message, ans) ==
    LET e == IF v.type = "MessageEvent" THEN v.event ELSE v
    IN  [calls |-> <<Call("send_message_to_target",
                          <<Private(e.from_uin), message>>)>>,
         ret |-> Answer(ans[1], "receipt")]

RECURSIVE send_message_to_source(_, _, _)
\* MessageSendToSourceTrait::send_message_to_source: the event hands itself to
\* the client as the source of the target. ans: the client's answers
send_message_to_source(v, message, ans) ==
    IF v.type = "MessageEvent"
    THEN send_message_to_source(v.event, message, ans)
    ELSE [calls |-> <<Call("send_message_to_target", <<target(v), message>>)>>,
          ret |-> Answer(ans[1], "receipt")]

\* upload_image_to_source, had a temp message taken the friend-image path
upload_image_to_source_temp_as_friend(v, data, ans) ==
    LET e == IF v.type = "MessageEvent" THEN v.event ELSE v
    IN  IF e.type = "GroupMessageEvent"
        THEN [calls |-> <<Call("upload_group_image", <<e.group_code, data>>)>>,
              ret |-> IF ans[1] = "ok" THEN Ok(<<"GroupImage", "image">>)
                      ELSE Answer(ans[1], "image")]
        ELSE [calls |-> <<Call("upload_friend_image", <<e.from_uin, data>>)>>,
              ret |-> IF ans[1] = "ok" THEN Ok(<<"FriendImage", "image">>)
                      ELSE Answer(ans[1], "image")]

RECURSIVE upload_image_to_source(_, _, _)
\* MessageSendToSourceTrait::upload_image_to_source
upload_image_to_source(v, data, ans) ==
    IF v.type = "MessageEvent"
    THEN upload_image_to_source(v.event, data, ans)
    ELSE IF v.type = "GroupMessageEvent"
    THEN [calls |-> <<Call("upload_group_image", <<v.group_code, data>>)>>,
          ret |-> IF ans[1] = "ok" THEN Ok(<<"GroupImage", "image">>)
                  ELSE Answer(ans[1], "image")]
    ELSE IF v.type = "FriendMessageEvent"
    THEN [calls |-> <<Call("upload_friend_image", <<v.from_uin, data>>)>>,
          ret |-> IF ans[1] = "ok" THEN Ok(<<"FriendImage", "image">>)
                  ELSE Answer(ans[1], "image")]
    ELSE [calls |-> <<>>,
          ret |-> Err(Other("tmp message not supported upload image"))]

\* send_audio_to_source, had the wrapper been left without audio
send_audio_to_source_wrapper_unsupported(v, data, codec, audio_duration, ans) ==
    IF v.type = "MessageEvent"
    THEN [calls |-> <<>>,
          ret |-> Err(Other("tmp message not supported upload audio"))]
    ELSE IF v.type = "GroupMessageEvent"
    THEN IF ans[1] = "ok"
         THEN [calls |-> <<Call("upload_group_audio",
                                <<v.group_code, data, codec>>),
                           Call("send_group_audio",
                                <<v.group_code, "group_audio">>)>>,
               ret |-> Answer(ans[2], "receipt")]
         ELSE [calls |-> <<Call("upload_group_audio",
                                <<v.group_code, data, codec>>)>>,
               ret |-> Answer(ans[1], "group_audio")]
    ELSE IF v.type = "FriendMessageEvent"
    THEN IF ans[1] = "ok"
         THEN [calls |-> <<Call("upload_friend_audio",
                                <<v.from_uin, data, audio_duration>>),
                           Call("send_friend_audio",
                                <<v.from_uin, "friend_audio">>)>>,
               ret |-> Answer(ans[2], "receipt")]
         ELSE [calls |-> <<Call("upload_friend_audio",
                                <<v.from_uin, data, audio_duration>>)>>,
               ret |-> Answer(ans[1], "friend_audio")]
    ELSE [calls |-> <<>>,
          ret |-> Err(Other("tmp message not supported upload audio"))]

\* send_audio_to_source, had the group upload been given the duration and the
\* friend upload the codec as well
send_audio_to_source_all_params(v, data, codec, audio_duration, ans) ==
    LET e == IF v.type = "MessageEvent" THEN v.event ELSE v
    IN  IF e.type = "GroupMessageEvent"
        THEN IF ans[1] = "ok"
             THEN [calls |-> <<Call("upload_group_audio",
                                    <<e.group_code, data, codec,
                                      audio_duration>>),
                               Call("send_group_audio",
                                    <<e.group_code, "group_audio">>)>>,
                   ret |-> Answer(ans[2], "receipt")]
             ELSE [calls |-> <<Call("upload_group_audio",
                                    <<e.group_code, data, codec,
                                      audio_duration>>)>>,
                   ret |-> Answer(ans[1], "group_audio")]
        ELSE IF e.type = "FriendMessageEvent"
        THEN IF ans[1] = "ok"
             THEN [calls |-> <<Call("upload_friend_audio",
                                    <<e.from_uin, data, codec,
                                      audio_duration>>),
                               Call("send_friend_audio",
                                    <<e.from_uin, "friend_audio">>)>>,
                   ret |-> Answer(ans[2], "receipt")]
             ELSE [calls |-> <<Call("upload_friend_audio",
                                    <<e.from_uin, data, codec,
                                      audio_duration>>)>>,
                   ret |-> Answer(ans[1], "friend_audio")]
        ELSE [calls |-> <<>>,
              ret |-> Err(Other("tmp message not supported upload audio"))]

RECURSIVE send_audio_to_source(_, _, _, _, _)
\* MessageSendToSourceTrait::send_audio_to_source: the upload, and the send
\* unless the upload failed
send_audio_to_source(v, data, codec, audio_duration, ans) ==
    IF v.type = "MessageEvent"
    THEN send_audio_to_source(v.event, data, codec, audio_duration, ans)
    ELSE IF v.type = "GroupMessageEvent"
    THEN LET upload == Call("upload_group_audio",
                            <<v.group_code, data, codec>>)
             send == Call("send_group_audio", <<v.group_code, "group_audio">>)
         IN  IF ans[1] = "ok"
             THEN [calls |-> <<upload, send>>,
                   ret |-> Answer(ans[2], "receipt")]
             ELSE [calls |-> <<upload>>,
                   ret |-> Answer(ans[1], "group_audio")]
    ELSE IF v.type = "FriendMessageEvent"
    THEN LET upload == Call("upload_friend_audio",
                            <<v.from_uin, data, audio_duration>>)
             send == Call("send_friend_audio", <<v.from_uin, "friend_audio">>)
         IN  IF ans[1] = "ok"
             THEN [calls |-> <<upload, send>>,
                   ret |-> Answer(ans[2], "receipt")]
             ELSE [calls |-> <<upload>>,
                   ret |-> Answer(ans[1], "friend_audio")]
    ELSE [calls |-> <<>>,
          ret |-> Err(Other("tmp message not supported upload audio"))]

\* a handler replies to the source of the message it holds
SendMessageToSource(message, ans) ==
    /\ view # NoView
    /\ LET r == send_message_to_source(view, message, ans)
       IN  /\ calls' = r.calls
           /\ opret' = r.ret
    /\ op' = <<"send_message_to_source", message>>
    /\ answers' = ans
    /\ UNCHANGED <<view, routerVars>>

\* a handler uploads an image for the source of the message it holds
UploadImageToSource(data, ans) ==
    /\ view # NoView
    /\ LET r == upload_image_to_source(view, data, ans)
       IN  /\ calls' = r.calls
           /\ opret' = r.ret
    /\ op' = <<"upload_image_to_source", data>>
    /\ answers' = ans
    /\ UNCHANGED <<view, routerVars>>

\* a handler sends an audio clip to the source of the message it holds
SendAudioToSource(data, codec, audio_duration, ans) ==
    /\ view # NoView
    /\ LET r == send_audio_to_source(view, data, codec, audio_duration, ans)
       IN  /\ calls' = r.calls
           /\ opret' = r.ret
    /\ op' = <<"send_audio_to_source", data, codec, audio_duration>>
    /\ answers' = ans
    /\ UNCHANGED <<view, routerVars>>

\* a handler asks the message it holds for its target
Target ==
    /\ view # NoView
    /\ op' = <<"target">>
    /\ calls' = <<>>
    /\ opret' = target(view)
    /\ answers' = <<>>
    /\ UNCHANGED <<view, routerVars>>

\* a handler asks the message it holds for its content
MessageContent ==
    /\ view # NoView
    /\ op' = <<"message_content">>
    /\ calls' = <<>>
    /\ opret' = message_content(view)
    /\ answers' = <<>>
    /\ UNCHANGED <<view, routerVars>>

\* a handler asks for the bot's own uin through the message it holds
BotUin ==
    /\ view # NoView
    /\ LET r == bot_uin(view)
       IN  /\ calls' = r.calls
           /\ opret' = r.ret
    /\ op' = <<"bot_uin">>
    /\ answers' = <<"ok">>
    /\ UNCHANGED <<view, routerVars>>

\* a handler looks a group up through the message it holds
MustFindGroup(group_code, auto_reload, ans) ==
    /\ view # NoView
    /\ LET r == must_find_group(view, group_code, auto_reload, ans)
       IN  /\ calls' = r.calls
           /\ opret' = r.ret
    /\ op' = <<"must_find_group", group_code, auto_reload>>
    /\ answers' = ans
    /\ UNCHANGED <<view, routerVars>>

\* a handler turns a string into a chain
ParseMessageChain(str) ==
    /\ view # NoView
    /\ op' = <<"parse_message_chain", str>>
    /\ calls' = <<>>
    /\ opret' = parse_message_chain(str)
    /\ answers' = <<>>
    /\ UNCHANGED <<view, routerVars>>

\* no registry and no dispatch: the conversation layer alone
RouterIdle ==
    /\ modules = <<>>
    /\ tasks = {}
    /\ pc = [t \in Tasks |-> "idle"]
    /\ event = [t \in Tasks |-> NoEvent]
    /\ mi = [t \in Tasks |-> 1]
    /\ hi = [t \in Tasks |-> 1]
    /\ result = [t \in Tasks |-> None]
    /\ invoked = [t \in Tasks |-> <<>>]
    /\ log = [t \in Tasks |-> <<>>]
    /\ returned = [t \in Tasks |-> "pending"]
    /\ failedBefore = FALSE

ViewInit ==
    /\ RouterIdle
    /\ view \in Views
    /\ op = NoOp
    /\ calls = <<>>
    /\ opret = Pending
    /\ answers = <<>>

ViewNext ==
    \/ \E message \in Chains, ans \in [1..2 -> Answers] :
          SendMessageToSource(message, ans)
    \/ \E data \in Datas, ans \in [1..2 -> Answers] :
          UploadImageToSource(data, ans)
    \/ \E data \in Datas, codec \in Codecs, d \in Durations,
          ans \in [1..2 -> Answers] :
          SendAudioToSource(data, codec, d, ans)
    \/ Target
    \/ MessageContent
    \/ BotUin
    \/ \E g \in GroupCodes, auto_reload \in BOOLEAN, ans \in [1..1 -> Answers] :
          MustFindGroup(g, auto_reload, ans)
    \/ \E str \in Strings : ParseMessageChain(str)

ViewSpec == ViewInit /\ [][ViewNext]_vars

\* ------------------------------------------------- the router's claims

RECURSIVE SlotsFrom(_)
SlotsFrom(i) ==
    IF i > Len(modules) THEN <<>>
    ELSE [j \in 1..Len(modules[i].handles) |-> <<i, j>>] \o SlotsFrom(i + 1)

\* the handlers of the registry in registration order: module, then handler
Slots == SlotsFrom(1)
SlotHandler(k) == LET s == Slots[k] IN modules[s[1]].handles[s[2]]
SlotModule(k) == modules[Slots[k][1]]

\* the place in registration order of the handler an invocation went to
Place(inv) ==
    LET slots == Slots
    IN  CHOOSE k \in 1..Len(slots) :
            /\ modules[slots[k][1]].id = inv.module
            /\ modules[slots[k][1]].handles[slots[k][2]].name = inv.handler

\* a capability covers an event kind
Accepts(process, kind) ==
    \/ process = kind
    \/ process = "Message" /\ kind \in MessageKinds

\* the places of the handlers whose capability covers the kind
MatchingPlaces(kind) ==
    LET slots == Slots
    IN  {k \in 1..Len(slots) :
            Accepts(modules[slots[k][1]].handles[slots[k][2]].process, kind)}

Declined(inv) == inv.ret = Ok(FALSE)
Took(inv) == inv.ret = Ok(TRUE) \/ inv.ret[1] = "Err"

\* the walk of a recognized event is over
WalkDone(t) == pc[t] \in {"ret", "done"} /\ Arms(event[t].kind) # <<>>

\* C1: once a handler of the walk has returned handled or failed, no further
\* handler is invoked for the event: every invocation but the last declined
C1_ShortCircuit ==
    \A t \in Tasks :
        \A i \in 1..(Len(invoked[t]) - 1) : Declined(invoked[t][i])

\* a handler took the event, and handlers that match it stand after that
\* handler in its module and in a later module
C1_Witness ==
    \E t \in Tasks :
        /\ pc[t] = "done"
        /\ invoked[t] # <<>>
        /\ LET last == invoked[t][Len(invoked[t])]
               kinds == MatchingPlaces(event[t].kind)
           IN  /\ Took(last)
               /\ \E k \in kinds :
                      k > Place(last) /\ Slots[k][1] = Slots[Place(last)][1]
               /\ \E k \in kinds : Slots[k][1] > Slots[Place(last)][1]

\* C2: the handlers are invoked in registration order, module then handler,
\* the concrete-kind and the Message handlers in that one order
C2_WalkOrder ==
    \A t \in Tasks :
        \A i, j \in 1..Len(invoked[t]) :
            i < j => Place(invoked[t][i]) < Place(invoked[t][j])

\* a group message went to a Message handler, then to a GroupMessage handler,
\* then to a Message handler of a later module
C2_Witness ==
    \E t \in Tasks :
        /\ event[t].kind = "GroupMessage"
        /\ Len(invoked[t]) = 3
        /\ invoked[t][1].process = "Message"
        /\ invoked[t][2].process = "GroupMessage"
        /\ invoked[t][3].process = "Message"
        /\ invoked[t][1].module = invoked[t][2].module
        /\ invoked[t][3].module # invoked[t][2].module

\* C3: a handler is invoked only with an event its capability covers: its own
\* kind, or any of the three message kinds for Message, which gets `me`
C3_CapabilityMatching ==
    \A t \in Tasks :
        \A i \in 1..Len(invoked[t]) :
            LET inv == invoked[t][i]
                h == SlotHandler(Place(inv))
            IN  /\ Accepts(h.process, event[t].kind)
                /\ inv.with = (IF h.process = "Message" THEN "me" ELSE "event")

\* a group request passed a Message and a GroupMessage handler and went to a
\* GroupRequest handler only
C3_Witness ==
    \E t \in Tasks :
        /\ event[t].kind = "GroupRequest"
        /\ pc[t] = "done"
        /\ Len(invoked[t]) = 1
        /\ \E a, b \in 1..Len(Slots) :
              /\ a < Place(invoked[t][1])
              /\ b < Place(invoked[t][1])
              /\ SlotHandler(a).process = "Message"
              /\ SlotHandler(b).process = "GroupMessage"

\* C4: a Process or Exception result names the module id and handler name of
\* the first matching handler in walk order that did not decline, Process when
\* it returned true and Exception when it failed; with no such handler the
\* result is None
C4_OutcomeIdentity ==
    \A t \in Tasks :
        WalkDone(t) =>
            LET takers == {i \in 1..Len(invoked[t]) : ~Declined(invoked[t][i])}
            IN  IF takers = {} THEN result[t] = None
                ELSE LET i == CHOOSE x \in takers : \A y \in takers : x <= y
                         inv == invoked[t][i]
                     IN  /\ result[t] =
                               IF inv.ret = Ok(TRUE)
                               THEN Process(inv.module, inv.handler)
                               ELSE Exception(inv.module, inv.handler)
                         /\ Place(inv) \in MatchingPlaces(event[t].kind)
                         /\ \A k \in MatchingPlaces(event[t].kind) :
                               k < Place(inv) =>
                                   \E j \in 1..(i - 1) :
                                       /\ Place(invoked[t][j]) = k
                                       /\ Declined(invoked[t][j])

\* scenario A: m1 holds h1 for GroupMessage, which declines, m2 holds h2 for
\* Message, which handles: a group message ends in Process("m2", "h2")
C4_Witness ==
    \E t \in Tasks :
        /\ pc[t] = "done"
        /\ event[t].kind = "GroupMessage"
        /\ Len(modules) = 2
        /\ Len(modules[1].handles) = 1
        /\ Len(modules[2].handles) = 1
        /\ modules[1].handles[1].process = "GroupMessage"
        /\ modules[2].handles[1].process = "Message"
        /\ Len(invoked[t]) = 2
        /\ invoked[t][1].ret = Ok(FALSE)
        /\ invoked[t][2].ret = Ok(TRUE)
        /\ result[t] = Process("m2", "h2")

\* C5: the result is None exactly when the walk went through every module and
\* every matching handler was invoked and declined; with no matching handler
\* the result is None and no handler is invoked
C5_OutcomeNone ==
    \A t \in Tasks :
        WalkDone(t) =>
            /\ result[t] = None <=>
                  /\ mi[t] > Len(modules)
                  /\ \A i \in 1..Len(invoked[t]) : Declined(invoked[t][i])
                  /\ \A k \in MatchingPlaces(event[t].kind) :
                        \E i \in 1..Len(invoked[t]) : Place(invoked[t][i]) = k
            /\ MatchingPlaces(event[t].kind) = {} =>
                  result[t] = None /\ invoked[t] = <<>>

\* a group message passed a handler of another kind, was declined by a
\* GroupMessage and by a Message handler, and ended in None
C5_Witness ==
    \E t \in Tasks :
        /\ pc[t] = "done"
        /\ event[t].kind = "GroupMessage"
        /\ result[t] = None
        /\ Len(invoked[t]) = 2
        /\ invoked[t][1].process # invoked[t][2].process
        /\ Len(Slots) = 3

\* C6: a handler's failure ends the dispatch in Exception with handle()
\* returning normally, and a dispatch that follows a failed one walks the
\* registry as any dispatch does: through the matching handlers in order up to
\* the first that did not decline, with the result that handler gives
C6_FailureContained ==
    \A t \in Tasks :
        /\ (pc[t] = "done" /\ \E i \in 1..Len(invoked[t]) :
                                  invoked[t][i].ret = Err("boom"))
              => result[t][1] = "Exception" /\ returned[t] = "unit"
        /\ (failedBefore /\ pc[t] = "done") =>
              LET n == Len(invoked[t])
                  places == MatchingPlaces(event[t].kind)
              IN  /\ returned[t] = "unit"
                  /\ \A i \in 1..n :
                        /\ Place(invoked[t][i]) \in places
                        /\ Cardinality({k \in places :
                                           k <= Place(invoked[t][i])}) = i
                        /\ i < n => Declined(invoked[t][i])
                  /\ IF n = 0 \/ Declined(invoked[t][n])
                     THEN result[t] = None /\ Cardinality(places) = n
                     ELSE result[t] =
                            IF invoked[t][n].ret = Ok(TRUE)
                            THEN Process(invoked[t][n].module,
                                         invoked[t][n].handler)
                            ELSE Exception(invoked[t][n].module,
                                           invoked[t][n].handler)

\* after a dispatch that ended in Exception, a later event was handled
C6_Witness ==
    \E t \in Tasks :
        /\ failedBefore
        /\ pc[t] = "done"
        /\ result[t][1] = "Process"
        /\ Len(invoked[t]) = 2

SeqRange(s) == {s[i] : i \in 1..Len(s)}

\* C7: every handler failure leaves a log record that carries the module id
\* and the handler name of the failing handler
C7_FailureLogged ==
    \A t \in Tasks :
        \A i \in 1..Len(invoked[t]) :
            invoked[t][i].ret[1] = "Err" =>
                \E k \in 1..Len(log[t]) :
                    /\ log[t][k].level = "ERROR"
                    /\ <<"module", invoked[t][i].module>>
                          \in SeqRange(log[t][k].args)
                    /\ <<"handler", invoked[t][i].handler>>
                          \in SeqRange(log[t][k].args)

\* C8: when the dispatch of a recognized event has finished, a log record
\* carries the result the walk computed
C8_OutcomeReported ==
    \A t \in Tasks :
        (pc[t] = "done" /\ Arms(event[t].kind) # <<>>) =>
            \E k \in 1..Len(log[t]) :
                <<"result", result[t]>> \in SeqRange(log[t][k].args)

\* ----------------------------------------- the conversation layer's claims

\* the message event under a view
Unwrapped(v) == IF v.type = "MessageEvent" THEN v.event ELSE v

\* C9: on a temp message, held directly or through the wrapper,
\* upload_image_to_source and send_audio_to_source return the failure that
\* says the operation is not supported, and make no call on the client
C9_TempUnsupported ==
    (Unwrapped(view).type = "TempMessageEvent"
       /\ op[1] \in {"upload_image_to_source", "send_audio_to_source"}) =>
        /\ calls = <<>>
        /\ opret =
             IF op[1] = "upload_image_to_source"
             THEN Err(Other("tmp message not supported upload image"))
             ELSE Err(Other("tmp message not supported upload audio"))

\* an image upload was asked of the wrapper of a temp message
C9_Witness ==
    /\ view.type = "MessageEvent"
    /\ view.event.type = "TempMessageEvent"
    /\ op[1] = "upload_image_to_source"
    /\ opret[1] = "Err"

\* C10: send_message_to_source makes exactly one call on the client, a send
\* of the caller's chain to the view's own target()
C10_ReplyToSource ==
    op[1] = "send_message_to_source" =>
        calls = <<Call("send_message_to_target", <<target(view), op[2]>>)>>

\* a reply went out through the wrapper of a group message
C10_Witness ==
    /\ view.type = "MessageEvent"
    /\ view.event.type = "GroupMessageEvent"
    /\ op[1] = "send_message_to_source"
    /\ Len(calls) = 1
    /\ calls[1].args[1] = Group(100, 200)

\* C11: target() of a group message is Group(group_code, from_uin), of a
\* private message Private(from_uin), of a temp message
\* Temp(group_code, from_uin) with an absent group_code left absent
C11_TargetByKind ==
    op[1] = "target" =>
        LET e == Unwrapped(view)
        IN  /\ e.type = "GroupMessageEvent" =>
                 opret = <<"Group", e.group_code, e.from_uin>>
            /\ e.type = "FriendMessageEvent" => opret = <<"Private", e.from_uin>>
            /\ e.type = "TempMessageEvent" =>
                 /\ opret = <<"Temp", e.group_code, e.from_uin>>
                 /\ e.group_code = Nothing => opret[2] = Nothing

\* scenario C: the group message of group 100 from 200 gave Group(100, 200)
C11_Witness ==
    /\ view.type = "GroupMessageEvent"
    /\ view.group_code = 100
    /\ view.from_uin = 200
    /\ op[1] = "target"
    /\ opret = <<"Group", 100, 200>>

\* what the last operation, with its arguments and the client's answers, gives
\* on the view v
Applied(v) ==
    CASE op[1] = "target" -> [calls |-> <<>>, ret |-> target(v)]
      [] op[1] = "message_content" ->
            [calls |-> <<>>, ret |-> message_content(v)]
      [] op[1] = "send_message_to_source" ->
            send_message_to_source(v, op[2], answers)
      [] op[1] = "upload_image_to_source" ->
            upload_image_to_source(v, op[2], answers)
      [] op[1] = "send_audio_to_source" ->
            send_audio_to_source(v, op[2], op[3], op[4], answers)
      [] op[1] = "bot_uin" -> bot_uin(v)
      [] op[1] = "must_find_group" ->
            must_find_group(v, op[2], op[3], answers)

ViewOps ==
    {"target", "message_content", "send_message_to_source",
     "upload_image_to_source", "send_audio_to_source", "bot_uin",
     "must_find_group"}

\* C12: an operation on the wrapper of a message event returns what it returns
\* on the event itself and makes the same calls on the client
C12_WrapperDelegates ==
    (view.type = "MessageEvent" /\ op[1] \in ViewOps) =>
        /\ opret = Applied(view.event).ret
        /\ calls = Applied(view.event).calls

\* an audio clip went out through the wrapper of a private message
C12_Witness ==
    /\ view.type = "MessageEvent"
    /\ view.event.type = "FriendMessageEvent"
    /\ op[1] = "send_audio_to_source"
    /\ Len(calls) = 2
    /\ opret = Ok("receipt")

\* C13: on a group message the calls of send_audio_to_source are the upload
\* of (group_code, data, codec) and the send, whatever the duration; on a
\* private message the upload of (from_uin, data, duration) and the send,
\* whatever the codec
C13_AudioParameters ==
    op[1] = "send_audio_to_source" =>
        LET e == Unwrapped(view)
        IN  /\ e.type = "GroupMessageEvent" =>
                 /\ calls[1] = Call("upload_group_audio",
                                    <<e.group_code, op[2], op[3]>>)
                 /\ Len(calls) = 2 =>
                      calls[2].name = "send_group_audio"
                 /\ \A d \in Durations :
                      send_audio_to_source(view, op[2], op[3], d,
                                           answers).calls = calls
            /\ e.type = "FriendMessageEvent" =>
                 /\ calls[1] = Call("upload_friend_audio",
                                    <<e.from_uin, op[2], op[4]>>)
                 /\ Len(calls) = 2 =>
                      calls[2].name = "send_friend_audio"
                 /\ \A c \in Codecs :
                      send_audio_to_source(view, op[2], c, op[4],
                                           answers).calls = calls

\* an audio clip went to a group with the longer duration
C13_Witness ==
    /\ view.type = "GroupMessageEvent"
    /\ op[1] = "send_audio_to_source"
    /\ op[4] = 2
    /\ Len(calls) = 2

C15_RegistryReadOnly == [][modules' = modules]_vars

\* both tasks ended a dispatch over a registry of two handlers, one of them in
\* Exception, and the registry still holds the two handlers
C15_Witness ==
    /\ pc["t1"] = "done"
    /\ pc["t2"] = "done"
    /\ result["t1"][1] = "Exception"
    /\ invoked["t2"] # <<>>
    /\ Len(Slots) = 2

RECURSIVE SoloFrom(_, _, _)
\* the walk of one event of the kind, alone, from place k on, over handlers
\* that answer as ans tells: the places it invokes and its result
SoloFrom(k, kind, ans) ==
    IF k > Len(Slots) THEN [places |-> <<>>, result |-> None]
    ELSE IF ~Accepts(SlotHandler(k).process, kind)
    THEN SoloFrom(k + 1, kind, ans)
    ELSE IF ans[k] = Ok(FALSE)
    THEN LET rest == SoloFrom(k + 1, kind, ans)
         IN  [places |-> <<k>> \o rest.places, result |-> rest.result]
    ELSE [places |-> <<k>>,
          result |-> IF ans[k] = Ok(TRUE)
                     THEN Process(SlotModule(k).id, SlotHandler(k).name)
                     ELSE Exception(SlotModule(k).id, SlotHandler(k).name)]

\* what the handlers answered to the event of a task; a handler that was not
\* asked is taken to decline
Answered(t) ==
    [k \in 1..Len(Slots) |->
        IF \E i \in 1..Len(invoked[t]) : Place(invoked[t][i]) = k
        THEN invoked[t][CHOOSE i \in 1..Len(invoked[t]) :
                            Place(invoked[t][i]) = k].ret
        ELSE Ok(FALSE)]

\* C16: whatever the other task does meanwhile (walks, fails, is cancelled),
\* a finished dispatch invoked the handlers, and has the result, that the walk
\* of its event alone has over the same registry with the same answers
C16_Independence ==
    \A t \in Tasks :
        pc[t] = "done" =>
            LET solo == SoloFrom(1, event[t].kind, Answered(t))
            IN  /\ [i \in 1..Len(invoked[t]) |-> Place(invoked[t][i])]
                      = solo.places
                /\ result[t] = solo.result

\* t1's dispatch was declined by one handler and handled by the next, while
\* t2's dispatch was cancelled at a handler
C16_Witness ==
    /\ pc["t1"] = "done"
    /\ Len(invoked["t1"]) = 2
    /\ result["t1"][1] = "Process"
    /\ pc["t2"] = "cancelled"
    /\ invoked["t2"] # <<>>

\* C17: a dispatch whose own handlers return comes to its end, whether or not
\* a handler of the other task ever returns
C17_NonBlocking ==
    pc["t2"] \in {"walk", "handler", "ret"}
        ~> pc["t2"] \in {"done", "cancelled"}

\* t2's dispatch went to a handler and ended while t1 waits in a handler
C17_Witness ==
    /\ pc["t1"] = "handler"
    /\ pc["t2"] = "done"
    /\ invoked["t2"] # <<>>
    /\ invoked["t2"][1].handler = invoked["t1"][1].handler

\* the places the walk of a task has been at: those before its position,
\* its position too while the handler there runs; after the walk, those up to
\* the handler that took the event, or all when there is none
PlacesReached(t) ==
    LET upto(m, h, incl) ==
            {k \in 1..Len(Slots) :
                \/ Slots[k][1] < m
                \/ Slots[k][1] = m /\ Slots[k][2] < h
                \/ incl /\ Slots[k] = <<m, h>>}
    IN  IF pc[t] = "walk" THEN upto(mi[t], hi[t], FALSE)
        ELSE IF pc[t] \in {"handler", "cancelled"}
        THEN upto(mi[t], hi[t], TRUE)
        ELSE IF result[t] = None \/ invoked[t] = <<>>
        THEN 1..Len(Slots)
        ELSE 1..Place(invoked[t][Len(invoked[t])])

\* C18: no matching handler the walk has been at is left out: every handler
\* whose capability covers the event, at a place the walk reached, was
\* invoked, behind a handler that does not match, in a module behind an empty
\* module, in a later module as well
C18_NoneSkipped ==
    \A t \in Tasks :
        event[t] # NoEvent =>
            \A k \in MatchingPlaces(event[t].kind) \cap PlacesReached(t) :
                \E i \in 1..Len(invoked[t]) : Place(invoked[t][i]) = k

\* the first module is empty, the second holds a handler that does not match
\* and two that do: both were invoked and the walk is over
C18_Witness ==
    \E t \in Tasks :
        /\ pc[t] = "done"
        /\ Len(modules) = 2
        /\ modules[1].handles = <<>>
        /\ Len(modules[2].handles) = 3
        /\ ~Accepts(modules[2].handles[1].process, event[t].kind)
        /\ Len(invoked[t]) = 2
        /\ result[t] = None

\* C19: no handler is invoked twice for one event, so the invocations of an
\* event are no more than the handlers of the registry
C19_AtMostOnce ==
    \A t \in Tasks :
        /\ \A i, j \in 1..Len(invoked[t]) :
              i # j => Place(invoked[t][i]) # Place(invoked[t][j])
        /\ Len(invoked[t]) <= Len(Slots)

\* a friend message went to each of three handlers, the last of which failed
C19_Witness ==
    \E t \in Tasks :
        /\ pc[t] = "done"
        /\ event[t].kind = "PrivateMessage"
        /\ Len(invoked[t]) = 3
        /\ Len(Slots) = 3
        /\ result[t][1] = "Exception"

\* C20: an event of a kind the router has no arm for invokes no handler, has
\* no Process and no Exception result, and handle() returns normally
C20_Unrecognized ==
    \A t \in Tasks :
        (event[t] # NoEvent
            /\ event[t].kind \notin MessageKinds \cup NoticeKinds) =>
                /\ invoked[t] = <<>>
                /\ result[t] = None
                /\ pc[t] \in {"ret", "done"}
                /\ pc[t] = "done" => returned[t] = "unit"

\* an event of another kind came to a registry that holds a Message handler,
\* and its dispatch ended
C20_Witness ==
    \E t \in Tasks :
        /\ event[t].kind = "Other"
        /\ pc[t] = "done"
        /\ returned[t] = "unit"
        /\ \E k \in 1..Len(Slots) : SlotHandler(k).process = "Message"

\* the results a dispatch can end with, by their tag
MapResultTags == {"None", "Process", "Exception"}

\* C21: a dispatch whose handlers each return (true, false or a failure)
\* comes to its end over every registry and for every event, with one result:
\* None, Process or Exception
C21_Termination ==
    pc["t1"] \in {"walk", "handler", "ret"}
        ~> (pc["t1"] = "done" /\ result["t1"][1] \in MapResultTags)

\* a walk over two modules and three handlers, of which one did not match and
\* two declined, came to its end in None
C21_Witness ==
    /\ pc["t1"] = "done"
    /\ Len(modules) = 2
    /\ Len(Slots) = 3
    /\ Len(invoked["t1"]) = 2
    /\ result["t1"] = None
    /\ mi["t1"] = Len(modules) + 1

====
